---- MODULE Spec2Model ----
(***************************************************************************)
(* Model of MemStorage (src/server/storage.ts): ten in-memory maps keyed   *)
(* by identifier, the create / get / list / update operations over them,   *)
(* and the activity-feed items emitted by createDonation, createRequest    *)
(* and createActivity.                                                     *)
(*                                                                         *)
(* Representation.                                                         *)
(*  - A Map<string, T> is a function from the identifiers it holds to      *)
(*    records.  Identifiers are issued in increasing order and no entry is *)
(*    ever deleted, so a map's insertion order (the order of               *)
(*    Array.from(map.values())) is the increasing order of its keys.       *)
(*  - randomUUID() is modelled as drawing an identifier that was never     *)
(*    issued before (nextId counts the identifiers issued).                *)
(*  - new Date() reads the clock `now`, which never runs backwards and may *)
(*    stand still over several calls (a Date has millisecond resolution).  *)
(*  - null is Null for text fields and NullId for identifier fields; an    *)
(*    optional input field is absent from the input's DOMAIN.              *)
(*  - T | undefined is a set holding at most one record.                   *)
(***************************************************************************)
EXTENDS Integers, Sequences, FiniteSets, TLC

\* ----------------------------------------------------------------- bounds
\* Identifiers issued in one run of Spec (a create call takes one, or two
\* with its feed item).
MaxIds == 2
\* Identifiers issued in one run of SpecLists, and on top of the initial
\* burst in one run of SpecBurst.
MaxListIds == 4
\* Last reading of the clock.
MaxTime == 1
\* Callers (request handlers) that may be in flight on the event loop at once.
MaxCallers == 2

VARIABLES
  users, organizations, donations, requests, activities,
  volunteerRegistrations, matches, activityFeed, payments, notifications,
  nextId,   \* identifiers issued so far, plus one
  now,      \* the clock read by new Date()
  ret,      \* the last call: its name, arguments and outcome
  issued,   \* history: identifier |-> the record its create call returned
  pending   \* the calls suspended at an await: caller |-> where, and its locals

store == <<users, organizations, donations, requests, activities,
           volunteerRegistrations, matches, activityFeed, payments,
           notifications>>
vars == <<users, organizations, donations, requests, activities,
          volunteerRegistrations, matches, activityFeed, payments,
          notifications, nextId, now, ret, issued, pending>>

\* ---------------------------------------------------------------- values
Null == "null"
NullId == 0
EmptyMap == [k \in {} |-> Null]
Times == 0..MaxTime

\* a ?? b on an optional input field
Opt(data, f, default) == IF f \in DOMAIN data THEN data[f] ELSE default

\* map.set(id, value)
MapSet(m, id, value) ==
  [k \in DOMAIN m \cup {id} |-> IF k = id THEN value ELSE m[k]]

\* map.get(id): the stored value, or undefined
MapGet(m, id) == IF id \in DOMAIN m THEN {m[id]} ELSE {}

\* { ...record, ...update }
MergeReplace(record, update) == update
Merge(record, update) ==
  [f \in DOMAIN record \cup DOMAIN update |->
     IF f \in DOMAIN update THEN update[f] ELSE record[f]]

\* Array.from(map.values()): the values in insertion order
Keys(m) ==
  LET n == Cardinality(DOMAIN m)
      rank == {<<Cardinality({j \in DOMAIN m : j <= k}), k>> : k \in DOMAIN m}
  IN SubSeq([i \in 1..n |-> CHOOSE k \in DOMAIN m : <<i, k>> \in rank], 1, n)
Values(m) ==
  LET keys == Keys(m) IN SubSeq([i \in DOMAIN keys |-> m[keys[i]]], 1, Len(keys))

\* array.sort((a, b) => dir * (a[field] - b[field])): dir = 1 ascending,
\* dir = -1 descending.  The sort is stable (ECMAScript 2019): of two elements
\* the comparator calls equal, the one that came first stays first.  So the
\* element at index i lands after exactly the elements that compare less than
\* it and the elements before it that compare equal to it.
Compare(a, b, field, dir) == dir * (a[field] - b[field])
SortBy(s, field, dir) ==
  LET n == Len(s)
      rank == SubSeq([i \in 1..n |->
                        1 + Cardinality({j \in 1..n :
                              \/ Compare(s[j], s[i], field, dir) < 0
                              \/ Compare(s[j], s[i], field, dir) = 0 /\ j < i})],
                     1, n)
  IN SubSeq([p \in 1..n |-> s[CHOOSE i \in 1..n : rank[i] = p]], 1, n)

\* array.slice(0, limit): a negative limit counts from the end
Slice0(s, limit) ==
  LET end == IF limit < 0 THEN (IF Len(s) + limit < 0 THEN 0 ELSE Len(s) + limit)
             ELSE (IF limit > Len(s) THEN Len(s) ELSE limit)
  IN SubSeq(s, 1, end)

Range(s) == {s[i] : i \in DOMAIN s}

\* ------------------------------------------------------------ identifiers
\* randomUUID(): the identifier drawn by the call made after `calls` earlier
\* calls of the same handler.
randomUUIDStuck(calls) == nextId
randomUUID(calls) == nextId + calls

\* ----------------------------------------------------------------- inputs
\* The store validates nothing: these are the values the checked runs draw.
Emails == {"a@x", "b@x"}
Types == {"", "food", "money"}
Urgencies == {"", "medium", "high"}

UserInputs ==
  {[name |-> "Ann", email |-> "a@x", password |-> "hash",
    userType |-> "donor"],
   [name |-> "Ann", email |-> "b@x", password |-> "hash",
    userType |-> "ngo", phone |-> "555", bio |-> "bio", location |-> "Pune"]}

OrganizationInputs ==
  {[userId |-> 1, name |-> "Org", website |-> "w", documents |-> <<"doc">>]}

DonationInputs ==
  {[donorId |-> 1, type |-> ty, title |-> "Rice"] : ty \in Types}
  \cup {[donorId |-> 1, type |-> "food", title |-> "Rice",
         description |-> "bags", amount |-> "10", quantity |-> 2,
         location |-> "Pune", images |-> <<"img">>, expiryDate |-> 1]}

RequestInputs ==
  {[requesterId |-> 1, type |-> ty, title |-> "Books",
    description |-> "need"] : ty \in {"", "food"}}
  \cup {[requesterId |-> 1, type |-> "food", title |-> "Books",
         description |-> "need", urgency |-> "high", targetAmount |-> "100",
         targetQuantity |-> 5, location |-> "Pune", images |-> <<"img">>,
         deadline |-> 1]}

ActivityInputs ==
  {[organizerId |-> 1, title |-> "Cleanup", description |-> "beach",
    location |-> "Pune", startTime |-> st, endTime |-> st + 1]
     : st \in Times}
  \cup {[organizerId |-> 1, title |-> "Cleanup",
         description |-> "beach", location |-> "Pune", startTime |-> 0,
         endTime |-> 1, maxVolunteers |-> 3, skills |-> <<"swim">>]}

VolunteerRegistrationInputs ==
  {[activityId |-> 1, volunteerId |-> 1]}

MatchInputs ==
  {[donationId |-> 1, requestId |-> NullId, activityId |-> NullId,
    userId |-> 1, score |-> "80", reason |-> "near",
    status |-> "pending"],
   [donationId |-> 1, requestId |-> 2, userId |-> 1, score |-> "80"]}

PaymentInputs ==
  {[payerId |-> 1, recipientId |-> 2, donationId |-> 1, amount |-> "100",
    razorpayOrderId |-> "order_0", status |-> "created"]}

NotificationInputs ==
  {[userId |-> 1, title |-> "Hello", read |-> TRUE]}

UserUpdates ==
  {[name |-> "Bob", verified |-> TRUE]}
DonationUpdates ==
  {[status |-> "claimed", recipientId |-> 2],
   [id |-> 99, createdAt |-> 0]}
RequestUpdates ==
  {[urgency |-> "high", raisedAmount |-> "50"]}
ActivityUpdates ==
  {[startTime |-> 1, status |-> "full"]}
PaymentUpdates ==
  {[status |-> "paid", razorpayPaymentId |-> "pay_1"],
   [id |-> 99, createdAt |-> 0]}

\* ---------------------------------------------------------------- records
\* The record each create call builds.
User(id, insertUser, createdAt) ==
  [id |-> id, name |-> insertUser.name, email |-> insertUser.email,
   password |-> insertUser.password, userType |-> insertUser.userType,
   phone |-> Opt(insertUser, "phone", Null), avatar |-> Null,
   bio |-> Opt(insertUser, "bio", Null),
   location |-> Opt(insertUser, "location", Null),
   verified |-> FALSE, createdAt |-> createdAt]

Organization(id, orgData, createdAt) ==
  [id |-> id, userId |-> orgData.userId, name |-> orgData.name,
   description |-> Opt(orgData, "description", Null),
   website |-> Opt(orgData, "website", Null),
   documents |-> Opt(orgData, "documents", <<>>),
   verified |-> FALSE, createdAt |-> createdAt,
   location |-> Opt(orgData, "location", Null)]

Donation(id, donationData, createdAt) ==
  [id |-> id, donorId |-> donationData.donorId, recipientId |-> NullId,
   type |-> donationData.type, title |-> donationData.title,
   description |-> Opt(donationData, "description", Null),
   amount |-> Opt(donationData, "amount", Null),
   quantity |-> Opt(donationData, "quantity", NullId),
   location |-> Opt(donationData, "location", Null),
   images |-> Opt(donationData, "images", <<>>),
   status |-> "active",
   expiryDate |-> Opt(donationData, "expiryDate", NullId),
   createdAt |-> createdAt]

Request(id, requestData, createdAt) ==
  [id |-> id, requesterId |-> requestData.requesterId,
   type |-> requestData.type, title |-> requestData.title,
   description |-> requestData.description,
   urgency |-> Opt(requestData, "urgency", "medium"),
   targetAmount |-> Opt(requestData, "targetAmount", Null),
   raisedAmount |-> "0",
   targetQuantity |-> Opt(requestData, "targetQuantity", NullId),
   receivedQuantity |-> 0,
   location |-> Opt(requestData, "location", Null),
   images |-> Opt(requestData, "images", <<>>),
   status |-> "active",
   deadline |-> Opt(requestData, "deadline", NullId),
   createdAt |-> createdAt]

Activity(id, activityData, createdAt) ==
  [id |-> id, organizerId |-> activityData.organizerId,
   title |-> activityData.title, description |-> activityData.description,
   location |-> activityData.location,
   startTime |-> activityData.startTime, endTime |-> activityData.endTime,
   maxVolunteers |-> Opt(activityData, "maxVolunteers", NullId),
   currentVolunteers |-> 0,
   skills |-> Opt(activityData, "skills", <<>>),
   status |-> "active", createdAt |-> createdAt]

VolunteerRegistration(id, registrationData, createdAt) ==
  [id |-> id, activityId |-> registrationData.activityId,
   volunteerId |-> registrationData.volunteerId, status |-> "pending",
   message |-> Opt(registrationData, "message", Null),
   createdAt |-> createdAt]

Match(id, matchData, createdAt) ==
  [id |-> id, donationId |-> Opt(matchData, "donationId", NullId),
   requestId |-> Opt(matchData, "requestId", NullId),
   activityId |-> Opt(matchData, "activityId", NullId),
   userId |-> matchData.userId, score |-> matchData.score,
   reason |-> Opt(matchData, "reason", Null),
   status |-> Opt(matchData, "status", "pending"),
   createdAt |-> createdAt]

\* { ...itemData, id, createdAt }
ActivityFeedItem(id, itemData, createdAt) ==
  Merge(itemData, [id |-> id, createdAt |-> createdAt])

Payment(id, paymentData, createdAt) ==
  [id |-> id, payerId |-> paymentData.payerId,
   recipientId |-> paymentData.recipientId,
   donationId |-> Opt(paymentData, "donationId", NullId),
   requestId |-> Opt(paymentData, "requestId", NullId),
   amount |-> paymentData.amount,
   razorpayPaymentId |-> Opt(paymentData, "razorpayPaymentId", Null),
   razorpayOrderId |-> Opt(paymentData, "razorpayOrderId", Null),
   status |-> paymentData.status, createdAt |-> createdAt]

\* { ...notificationData, id, read: false, createdAt }
Notification(id, notificationData, createdAt) ==
  Merge(notificationData,
        [id |-> id, read |-> FALSE, createdAt |-> createdAt])

\* a || '' on a text field: null and '' both give ''
OrEmpty(a) == IF a = Null THEN "" ELSE a

\* The feed item data createDonation / createRequest / createActivity pass
\* to createActivityFeedItem.  A template literal is kept as the pair of its
\* prefix and the title it embeds.
DonationFeedData(donation) ==
  [userId |-> donation.donorId, type |-> "donation",
   title |-> <<"New donation: ", donation.title>>,
   description |-> OrEmpty(donation.description),
   metadata |-> [donationId |-> donation.id, type |-> donation.type],
   likes |-> 0, comments |-> 0]

RequestFeedData(request) ==
  [userId |-> request.requesterId, type |-> "request",
   title |-> <<"New request: ", request.title>>,
   description |-> request.description,
   metadata |-> [requestId |-> request.id, urgency |-> request.urgency],
   likes |-> 0, comments |-> 0]

ActivityFeedData(activity) ==
  [userId |-> activity.organizerId, type |-> "volunteer",
   title |-> <<"New volunteer opportunity: ", activity.title>>,
   description |-> activity.description,
   metadata |-> [activityId |-> activity.id, location |-> activity.location],
   likes |-> 0, comments |-> 0]

FeedInputs ==
  {[userId |-> 1, type |-> "donation", title |-> <<"Direct", "">>,
    description |-> "", metadata |-> [note |-> "direct"], likes |-> 0,
    comments |-> 0]}

\* ------------------------------------------------------------------ state
Init ==
  /\ users = EmptyMap
  /\ organizations = EmptyMap
  /\ donations = EmptyMap
  /\ requests = EmptyMap
  /\ activities = EmptyMap
  /\ volunteerRegistrations = EmptyMap
  /\ matches = EmptyMap
  /\ activityFeed = EmptyMap
  /\ payments = EmptyMap
  /\ notifications = EmptyMap
  /\ nextId = 1
  /\ now = 0
  /\ ret = [op |-> "new"]
  /\ issued = EmptyMap
  /\ pending = EmptyMap

\* The clock moves on between two reads.
Tick ==
  /\ now < MaxTime
  /\ now' = now + 1
  /\ UNCHANGED <<store, nextId, ret, issued>>

\* The readings new Date() can give after a reading of t (the clock may have
\* moved on by then).
Later(t) == {u \in Times : t <= u /\ u <= t + 1}

Returned(op, arg, value) ==
  [op |-> op, arg |-> arg, error |-> Null, value |-> value]
Issue(kind, record) == [kind |-> kind, record |-> record]

\* ----------------------------------------------------------------- creates
CreateUser(insertUser) ==
  LET id == randomUUID(0)
      user == User(id, insertUser, now)
  IN /\ users' = MapSet(users, id, user)
     /\ nextId' = id + 1
     /\ ret' = Returned("createUser", insertUser, user)
     /\ issued' = MapSet(issued, id, Issue("user", user))
     /\ UNCHANGED <<organizations, donations, requests, activities,
                    volunteerRegistrations, matches, activityFeed, payments,
                    notifications, now>>

CreateOrganization(orgData) ==
  LET id == randomUUID(0)
      organization == Organization(id, orgData, now)
  IN /\ organizations' = MapSet(organizations, id, organization)
     /\ nextId' = id + 1
     /\ ret' = Returned("createOrganization", orgData, organization)
     /\ issued' = MapSet(issued, id, Issue("organization", organization))
     /\ UNCHANGED <<users, donations, requests, activities,
                    volunteerRegistrations, matches, activityFeed, payments,
                    notifications, now>>

\* createActivityFeedItem(itemData) as called by a create that has drawn one
\* identifier already: the item it stores.
FeedItemFor(itemData, createdAt) ==
  ActivityFeedItem(randomUUID(1), itemData, createdAt)

CreateDonation(donationData, feedTime) ==
  LET id == randomUUID(0)
      donation == Donation(id, donationData, now)
      item == FeedItemFor(DonationFeedData(donation), feedTime)
  IN /\ feedTime \in Later(now)
     /\ donations' = MapSet(donations, id, donation)
     /\ activityFeed' = MapSet(activityFeed, item.id, item)
     /\ nextId' = nextId + 2
     /\ now' = feedTime
     /\ ret' = Returned("createDonation", donationData, donation)
     /\ issued' = MapSet(MapSet(issued, id, Issue("donation", donation)),
                         item.id, Issue("feed", item))
     /\ UNCHANGED <<users, organizations, requests, activities,
                    volunteerRegistrations, matches, payments, notifications>>

CreateRequest(requestData, feedTime) ==
  LET id == randomUUID(0)
      request == Request(id, requestData, now)
      item == FeedItemFor(RequestFeedData(request), feedTime)
  IN /\ feedTime \in Later(now)
     /\ requests' = MapSet(requests, id, request)
     /\ activityFeed' = MapSet(activityFeed, item.id, item)
     /\ nextId' = nextId + 2
     /\ now' = feedTime
     /\ ret' = Returned("createRequest", requestData, request)
     /\ issued' = MapSet(MapSet(issued, id, Issue("request", request)),
                         item.id, Issue("feed", item))
     /\ UNCHANGED <<users, organizations, donations, activities,
                    volunteerRegistrations, matches, payments, notifications>>

CreateActivity(activityData, feedTime) ==
  LET id == randomUUID(0)
      activity == Activity(id, activityData, now)
      item == FeedItemFor(ActivityFeedData(activity), feedTime)
  IN /\ feedTime \in Later(now)
     /\ activities' = MapSet(activities, id, activity)
     /\ activityFeed' = MapSet(activityFeed, item.id, item)
     /\ nextId' = nextId + 2
     /\ now' = feedTime
     /\ ret' = Returned("createActivity", activityData, activity)
     /\ issued' = MapSet(MapSet(issued, id, Issue("activity", activity)),
                         item.id, Issue("feed", item))
     /\ UNCHANGED <<users, organizations, donations, requests,
                    volunteerRegistrations, matches, payments, notifications>>

CreateVolunteerRegistration(registrationData) ==
  LET id == randomUUID(0)
      registration == VolunteerRegistration(id, registrationData, now)
  IN /\ volunteerRegistrations' =
          MapSet(volunteerRegistrations, id, registration)
     /\ nextId' = id + 1
     /\ ret' = Returned("createVolunteerRegistration", registrationData,
                        registration)
     /\ issued' = MapSet(issued, id, Issue("registration", registration))
     /\ UNCHANGED <<users, organizations, donations, requests, activities,
                    matches, activityFeed, payments, notifications, now>>

CreateMatch(matchData) ==
  LET id == randomUUID(0)
      match == Match(id, matchData, now)
  IN /\ matches' = MapSet(matches, id, match)
     /\ nextId' = id + 1
     /\ ret' = Returned("createMatch", matchData, match)
     /\ issued' = MapSet(issued, id, Issue("match", match))
     /\ UNCHANGED <<users, organizations, donations, requests, activities,
                    volunteerRegistrations, activityFeed, payments,
                    notifications, now>>

CreateActivityFeedItem(itemData) ==
  LET id == randomUUID(0)
      item == ActivityFeedItem(id, itemData, now)
  IN /\ activityFeed' = MapSet(activityFeed, id, item)
     /\ nextId' = id + 1
     /\ ret' = Returned("createActivityFeedItem", itemData, item)
     /\ issued' = MapSet(issued, id, Issue("feed", item))
     /\ UNCHANGED <<users, organizations, donations, requests, activities,
                    volunteerRegistrations, matches, payments, notifications,
                    now>>

CreatePayment(paymentData) ==
  LET id == randomUUID(0)
      payment == Payment(id, paymentData, now)
  IN /\ payments' = MapSet(payments, id, payment)
     /\ nextId' = id + 1
     /\ ret' = Returned("createPayment", paymentData, payment)
     /\ issued' = MapSet(issued, id, Issue("payment", payment))
     /\ UNCHANGED <<users, organizations, donations, requests, activities,
                    volunteerRegistrations, matches, activityFeed,
                    notifications, now>>

CreateNotification(notificationData) ==
  LET id == randomUUID(0)
      notification == Notification(id, notificationData, now)
  IN /\ notifications' = MapSet(notifications, id, notification)
     /\ nextId' = id + 1
     /\ ret' = Returned("createNotification", notificationData, notification)
     /\ issued' = MapSet(issued, id, Issue("notification", notification))
     /\ UNCHANGED <<users, organizations, donations, requests, activities,
                    volunteerRegistrations, matches, activityFeed, payments,
                    now>>

\* ----------------------------------------------------------------- updates
Thrown(op, id, arg, message) ==
  [op |-> op, id |-> id, arg |-> arg, error |-> message]
Updated(op, id, arg, value) ==
  [op |-> op, id |-> id, arg |-> arg, error |-> Null, value |-> value]

UpdateUser(id, userUpdate) ==
  IF id \notin DOMAIN users
  THEN /\ ret' = Thrown("updateUser", id, userUpdate, "User not found")
       /\ UNCHANGED <<store, nextId, now, issued>>
  ELSE LET updatedUser == Merge(users[id], userUpdate)
       IN /\ users' = MapSet(users, id, updatedUser)
          /\ ret' = Updated("updateUser", id, userUpdate, updatedUser)
          /\ UNCHANGED <<organizations, donations, requests, activities,
                         volunteerRegistrations, matches, activityFeed,
                         payments, notifications, nextId, now, issued>>

UpdateDonation(id, donationUpdate) ==
  IF id \notin DOMAIN donations
  THEN /\ ret' = Thrown("updateDonation", id, donationUpdate,
                        "Donation not found")
       /\ UNCHANGED <<store, nextId, now, issued>>
  ELSE LET updatedDonation == Merge(donations[id], donationUpdate)
       IN /\ donations' = MapSet(donations, id, updatedDonation)
          /\ ret' = Updated("updateDonation", id, donationUpdate,
                            updatedDonation)
          /\ UNCHANGED <<users, organizations, requests, activities,
                         volunteerRegistrations, matches, activityFeed,
                         payments, notifications, nextId, now, issued>>

UpdateRequest(id, requestUpdate) ==
  IF id \notin DOMAIN requests
  THEN /\ ret' = Thrown("updateRequest", id, requestUpdate,
                        "Request not found")
       /\ UNCHANGED <<store, nextId, now, issued>>
  ELSE LET updatedRequest == Merge(requests[id], requestUpdate)
       IN /\ requests' = MapSet(requests, id, updatedRequest)
          /\ ret' = Updated("updateRequest", id, requestUpdate,
                            updatedRequest)
          /\ UNCHANGED <<users, organizations, donations, activities,
                         volunteerRegistrations, matches, activityFeed,
                         payments, notifications, nextId, now, issued>>

UpdateActivity(id, activityUpdate) ==
  IF id \notin DOMAIN activities
  THEN /\ ret' = Thrown("updateActivity", id, activityUpdate,
                        "Activity not found")
       /\ UNCHANGED <<store, nextId, now, issued>>
  ELSE LET updatedActivity == Merge(activities[id], activityUpdate)
       IN /\ activities' = MapSet(activities, id, updatedActivity)
          /\ ret' = Updated("updateActivity", id, activityUpdate,
                            updatedActivity)
          /\ UNCHANGED <<users, organizations, donations, requests,
                         volunteerRegistrations, matches, activityFeed,
                         payments, notifications, nextId, now, issued>>

UpdatePayment(id, paymentUpdate) ==
  IF id \notin DOMAIN payments
  THEN /\ ret' = Thrown("updatePayment", id, paymentUpdate,
                        "Payment not found")
       /\ UNCHANGED <<store, nextId, now, issued>>
  ELSE LET updatedPayment == Merge(payments[id], paymentUpdate)
       IN /\ payments' = MapSet(payments, id, updatedPayment)
          /\ ret' = Updated("updatePayment", id, paymentUpdate,
                            updatedPayment)
          /\ UNCHANGED <<users, organizations, donations, requests,
                         activities, volunteerRegistrations, matches,
                         activityFeed, notifications, nextId, now, issued>>

\* The map after markNotificationAsRead(id)
MarkedUpsert(m, id) ==
  MapSet(m, id, IF id \in DOMAIN m THEN Merge(m[id], [read |-> TRUE])
                ELSE [id |-> id, read |-> TRUE])
Marked(m, id) ==
  IF id \in DOMAIN m THEN MapSet(m, id, Merge(m[id], [read |-> TRUE]))
  ELSE m

MarkNotificationAsRead(id) ==
  /\ notifications' = Marked(notifications, id)
  /\ ret' = [op |-> "markNotificationAsRead", id |-> id, error |-> Null]
  /\ UNCHANGED <<users, organizations, donations, requests, activities,
                 volunteerRegistrations, matches, activityFeed, payments,
                 nextId, now, issued>>

\* ------------------------------------------------------------------ reads
\* Each read is a function of the store; `filters` is a record that may lack
\* any of its fields (no argument at all is the empty record).
Truthy(filters, f) == f \in DOMAIN filters /\ filters[f] # ""

\* array.find(p): the first element p accepts, or undefined
First(s) == IF s = <<>> THEN {} ELSE {Head(s)}

getUserStripped(id) ==
  {[f \in DOMAIN u \ {"password"} |-> u[f]] : u \in MapGet(users, id)}
getUser(id) == MapGet(users, id)

getUserByEmail(email) ==
  LET Has(u) == u.email = email IN First(SelectSeq(Values(users), Has))

getOrganizationByUserId(userId) ==
  LET Has(o) == o.userId = userId
  IN First(SelectSeq(Values(organizations), Has))

getDonationsUnsorted(filters) ==
  LET Has(d) == d.type = filters.type
  IN IF Truthy(filters, "type") THEN SelectSeq(Values(donations), Has)
     ELSE Values(donations)
getDonations(filters) ==
  LET Has(d) == d.type = filters.type
      all == Values(donations)
      kept == IF Truthy(filters, "type") THEN SelectSeq(all, Has) ELSE all
  IN SortBy(kept, "createdAt", -1)

getDonation(id) == MapGet(donations, id)

getRequests(filters) ==
  LET HasType(r) == r.type = filters.type
      HasUrgency(r) == r.urgency = filters.urgency
      all == Values(requests)
      byType == IF Truthy(filters, "type") THEN SelectSeq(all, HasType)
                ELSE all
      kept == IF Truthy(filters, "urgency")
              THEN SelectSeq(byType, HasUrgency) ELSE byType
  IN SortBy(kept, "createdAt", -1)

getRequest(id) == MapGet(requests, id)

getActivitiesUnsorted(filters) == Values(activities)
getActivities(filters) == SortBy(Values(activities), "startTime", 1)

getActivity(id) == MapGet(activities, id)

getVolunteerRegistrations(volunteerId) ==
  LET Has(r) == r.volunteerId = volunteerId
  IN SelectSeq(Values(volunteerRegistrations), Has)

getMatches(userId) ==
  LET Has(m) == m.userId = userId IN SelectSeq(Values(matches), Has)

\* getActivityFeed(limit); getActivityFeed() is getActivityFeed(DefaultLimit)
DefaultLimit == 50
Newest(feed, limit) == Slice0(SortBy(Values(feed), "createdAt", -1), limit)
getActivityFeed(limit) == Newest(activityFeed, limit)

getPayment(id) == MapGet(payments, id)

getNotifications(userId) ==
  LET Has(n) == n.userId = userId
  IN SortBy(SelectSeq(Values(notifications), Has), "createdAt", -1)

\* --------------------------------------------------------- specifications
\* There is room for n more identifiers under the bound.
Room(n, bound) == nextId + n - 1 <= bound

\* The calls of an update operation that are tried: every update on every
\* identifier the map holds, and one on the first identifier it lacks.
Missing(m) ==
  CHOOSE i \in 1..nextId :
    /\ i \notin DOMAIN m
    /\ \A j \in 1..nextId : j \notin DOMAIN m => i <= j
Calls(m, updates) ==
  ((DOMAIN m) \X updates) \cup {<<Missing(m), CHOOSE u \in updates : TRUE>>}

UpdateUserCalls ==
  \E c \in Calls(users, UserUpdates) : UpdateUser(c[1], c[2])
UpdateDonationCalls ==
  \E c \in Calls(donations, DonationUpdates) : UpdateDonation(c[1], c[2])
UpdateRequestCalls ==
  \E c \in Calls(requests, RequestUpdates) : UpdateRequest(c[1], c[2])
UpdateActivityCalls ==
  \E c \in Calls(activities, ActivityUpdates) : UpdateActivity(c[1], c[2])
UpdatePaymentCalls ==
  \E c \in Calls(payments, PaymentUpdates) : UpdatePayment(c[1], c[2])
MarkNotificationAsReadCalls ==
  \E id \in DOMAIN notifications \cup {Missing(notifications)} :
    MarkNotificationAsRead(id)

\* The creates that take one identifier.
CreatesOne ==
  \/ \E insertUser \in UserInputs : CreateUser(insertUser)
  \/ \E orgData \in OrganizationInputs : CreateOrganization(orgData)
  \/ \E registrationData \in VolunteerRegistrationInputs :
       CreateVolunteerRegistration(registrationData)
  \/ \E matchData \in MatchInputs : CreateMatch(matchData)
  \/ \E itemData \in FeedInputs : CreateActivityFeedItem(itemData)
  \/ \E paymentData \in PaymentInputs : CreatePayment(paymentData)
  \/ \E notificationData \in NotificationInputs :
       CreateNotification(notificationData)

\* The creates that take two: the record's and its feed item's.
CreatesTwo(donationInputs, requestInputs, activityInputs) ==
  \/ \E donationData \in donationInputs, t \in Times :
       CreateDonation(donationData, t)
  \/ \E requestData \in requestInputs, t \in Times :
       CreateRequest(requestData, t)
  \/ \E activityData \in activityInputs, t \in Times :
       CreateActivity(activityData, t)

\* Every operation of the store, from the store as constructed.
Next ==
  \/ /\ Tick
     /\ UNCHANGED pending
  \/ /\ Room(1, MaxIds) /\ CreatesOne
     /\ UNCHANGED pending
  \/ /\ Room(2, MaxIds) /\ CreatesTwo({d \in DonationInputs : d.type = "food"},
                                      {r \in RequestInputs : r.type = "food"},
                                      {a \in ActivityInputs : a.startTime = 0})
     /\ UNCHANGED pending
  \/ /\ UpdateUserCalls
     /\ UNCHANGED pending
  \/ /\ UpdateDonationCalls
     /\ UNCHANGED pending
  \/ /\ UpdateRequestCalls
     /\ UNCHANGED pending
  \/ /\ UpdateActivityCalls
     /\ UNCHANGED pending
  \/ /\ UpdatePaymentCalls
     /\ UNCHANGED pending
  \/ /\ MarkNotificationAsReadCalls
     /\ UNCHANGED pending
Spec == Init /\ [][Next]_vars

\* The operations behind the listings (donations, requests, activities and
\* the feed), from the store as constructed, over every input.
NextLists ==
  \/ /\ Tick
     /\ UNCHANGED pending
  \/ /\ Room(1, MaxListIds) /\ \E itemData \in FeedInputs :
                                 CreateActivityFeedItem(itemData)
     /\ UNCHANGED pending
  \/ /\ Room(2, MaxListIds) /\ CreatesTwo(DonationInputs, RequestInputs,
                                          ActivityInputs)
     /\ UNCHANGED pending
  \/ /\ UpdateDonationCalls
     /\ UNCHANGED pending
  \/ /\ UpdateRequestCalls
     /\ UNCHANGED pending
  \/ /\ UpdateActivityCalls
     /\ UNCHANGED pending
SpecLists == Init /\ [][NextLists]_vars

\* ------------------------------------------------- reads as calls, aliasing
\* A get or list call hands out the very objects the map holds
\* (`return this.users.get(id)`), and so does a create call (`return user`).
\* `refs` names them: the map and the key each returned object is stored
\* under.
Read(op, arg, value, refs) ==
  [op |-> op, arg |-> arg, error |-> Null, value |-> value, refs |-> refs]

GetUser(id) ==
  /\ ret' = Read("getUser", id, getUser(id),
                 {<<"users", k>> : k \in DOMAIN users \cap {id}})
  /\ UNCHANGED <<store, nextId, now, issued>>

GetDonation(id) ==
  /\ ret' = Read("getDonation", id, getDonation(id),
                 {<<"donations", k>> : k \in DOMAIN donations \cap {id}})
  /\ UNCHANGED <<store, nextId, now, issued>>

GetDonations(filters) ==
  /\ ret' = Read("getDonations", filters, getDonations(filters),
                 {<<"donations", k>> : k \in
                    {j \in DOMAIN donations :
                       \E i \in DOMAIN getDonations(filters) :
                         getDonations(filters)[i] = donations[j]}})
  /\ UNCHANGED <<store, nextId, now, issued>>

\* The stored objects the last call returned to its caller.
Refs ==
  CASE ret.op = "createUser" -> {<<"users", ret.value.id>>}
    [] ret.op = "createDonation" -> {<<"donations", ret.value.id>>}
    [] ret.op \in {"getUser", "getDonation", "getDonations"} -> ret.refs
    [] OTHER -> {}

\* The caller assigns to a field of an object the last call returned:
\* user.name = "edited", donation.title = "edited".  The object is the one
\* the map holds, so the assignment is to the stored record.
CallerMutates(ref) ==
  /\ ref \in Refs
  /\ IF ref[1] = "users"
     THEN /\ users' = [users EXCEPT ![ref[2]].name = "edited"]
          /\ UNCHANGED donations
     ELSE /\ donations' = [donations EXCEPT ![ref[2]].title = "edited"]
          /\ UNCHANGED users
  /\ ret' = [op |-> "callerMutates", ref |-> ref]
  /\ UNCHANGED <<organizations, requests, activities,
                 volunteerRegistrations, matches, activityFeed, payments,
                 notifications, nextId, now, issued>>

\* Users and donations created and read, and the caller writing to the
\* objects it was handed.
NextAlias ==
  \/ /\ Room(1, MaxIds) /\ \E insertUser \in UserInputs : CreateUser(insertUser)
     /\ UNCHANGED pending
  \/ /\ Room(2, MaxIds) /\ \E donationData \in DonationInputs :
                             CreateDonation(donationData, now)
     /\ UNCHANGED pending
  \/ /\ \E id \in DOMAIN users \cup {Missing(users)} : GetUser(id)
     /\ UNCHANGED pending
  \/ /\ \E id \in DOMAIN donations \cup {Missing(donations)} : GetDonation(id)
     /\ UNCHANGED pending
  \/ /\ \E filters \in {EmptyMap, [type |-> "food"]} : GetDonations(filters)
     /\ UNCHANGED pending
  \/ /\ \E ref \in Refs : CallerMutates(ref)
     /\ UNCHANGED pending
SpecAlias == Init /\ [][NextAlias]_vars

\* ------------------------------------------------------------------ burst
\* The store after createDonation was called `calls` times with the same
\* input within one reading of the clock: donations under the odd
\* identifiers, their feed items under the even ones.
BurstInput == [donorId |-> 1, type |-> "food", title |-> "Rice"]
BurstDonation(k) == Donation(k, BurstInput, 0)
BurstItem(k) ==
  ActivityFeedItem(k, DonationFeedData(BurstDonation(k - 1)), 0)
InitBurst(calls) ==
  /\ users = EmptyMap
  /\ organizations = EmptyMap
  /\ donations = [k \in {j \in 1..2 * calls : j % 2 = 1} |-> BurstDonation(k)]
  /\ requests = EmptyMap
  /\ activities = EmptyMap
  /\ volunteerRegistrations = EmptyMap
  /\ matches = EmptyMap
  /\ activityFeed = [k \in {j \in 1..2 * calls : j % 2 = 0} |-> BurstItem(k)]
  /\ payments = EmptyMap
  /\ notifications = EmptyMap
  /\ nextId = 2 * calls + 1
  /\ now = 0
  /\ ret = Returned("createDonation", BurstInput,
                    BurstDonation(2 * calls - 1))
  /\ issued = [k \in 1..2 * calls |->
                 IF k % 2 = 1 THEN Issue("donation", BurstDonation(k))
                 ELSE Issue("feed", BurstItem(k))]
  /\ pending = EmptyMap

\* The creates that feed the activity feed, from a store whose feed is one
\* item short of the default limit of getActivityFeed.
NextBurst ==
  \/ /\ Tick
     /\ UNCHANGED pending
  \/ /\ Room(1, 2 * (DefaultLimit - 1) + MaxListIds) /\
          \E itemData \in FeedInputs : CreateActivityFeedItem(itemData)
     /\ UNCHANGED pending
  \/ /\ Room(2, 2 * (DefaultLimit - 1) + MaxListIds) /\
          CreatesTwo(DonationInputs, RequestInputs, ActivityInputs)
     /\ UNCHANGED pending
SpecBurst == InitBurst(DefaultLimit - 1) /\ [][NextBurst]_vars

\* ------------------------------------------------------------ event loop
\* Every operation of MemStorage is an async function.  Called, it runs on
\* the caller's stack up to its first await; there it is suspended, and the
\* event loop may run any other caller before it resumes.  A step below is
\* one such uninterrupted run.  Operations with no await in them (the
\* updates, createActivityFeedItem) are one run: the actions above.
Callers == 1..MaxCallers
Idle(c) == c \notin DOMAIN pending
Suspend(c, at, arg, value) ==
  MapSet(pending, c, [at |-> at, arg |-> arg, value |-> value])
Resume(c) == [k \in DOMAIN pending \ {c} |-> pending[k]]

\* The feed when a create reaches `await this.createActivityFeedItem(...)`:
\* the callee has no await of its own, so it has run to its end and stored
\* the item before the create is suspended.
FeedAtAwaitDeferred(item) == activityFeed
FeedAtAwait(item) == MapSet(activityFeed, item.id, item)

\* createDonation from its call to its await
CreateDonationCall(c, donationData, feedTime) ==
  LET id == randomUUID(0)
      donation == Donation(id, donationData, now)
      item == FeedItemFor(DonationFeedData(donation), feedTime)
  IN /\ Idle(c)
     /\ feedTime \in Later(now)
     /\ donations' = MapSet(donations, id, donation)
     /\ activityFeed' = FeedAtAwait(item)
     /\ nextId' = nextId + 2
     /\ now' = feedTime
     /\ issued' = MapSet(MapSet(issued, id, Issue("donation", donation)),
                         item.id, Issue("feed", item))
     /\ pending' = Suspend(c, "createDonation", donationData, donation)
     /\ UNCHANGED <<users, organizations, requests, activities,
                    volunteerRegistrations, matches, payments, notifications,
                    ret>>

\* createRequest from its call to its await
CreateRequestCall(c, requestData, feedTime) ==
  LET id == randomUUID(0)
      request == Request(id, requestData, now)
      item == FeedItemFor(RequestFeedData(request), feedTime)
  IN /\ Idle(c)
     /\ feedTime \in Later(now)
     /\ requests' = MapSet(requests, id, request)
     /\ activityFeed' = FeedAtAwait(item)
     /\ nextId' = nextId + 2
     /\ now' = feedTime
     /\ issued' = MapSet(MapSet(issued, id, Issue("request", request)),
                         item.id, Issue("feed", item))
     /\ pending' = Suspend(c, "createRequest", requestData, request)
     /\ UNCHANGED <<users, organizations, donations, activities,
                    volunteerRegistrations, matches, payments, notifications,
                    ret>>

\* createActivity from its call to its await
CreateActivityCall(c, activityData, feedTime) ==
  LET id == randomUUID(0)
      activity == Activity(id, activityData, now)
      item == FeedItemFor(ActivityFeedData(activity), feedTime)
  IN /\ Idle(c)
     /\ feedTime \in Later(now)
     /\ activities' = MapSet(activities, id, activity)
     /\ activityFeed' = FeedAtAwait(item)
     /\ nextId' = nextId + 2
     /\ now' = feedTime
     /\ issued' = MapSet(MapSet(issued, id, Issue("activity", activity)),
                         item.id, Issue("feed", item))
     /\ pending' = Suspend(c, "createActivity", activityData, activity)
     /\ UNCHANGED <<users, organizations, donations, requests,
                    volunteerRegistrations, matches, payments, notifications,
                    ret>>

\* A create resumes after its await: `return donation`.
CreateReturns(c) ==
  /\ c \in DOMAIN pending
  /\ pending[c].at \in {"createDonation", "createRequest", "createActivity"}
  /\ ret' = Returned(pending[c].at, pending[c].arg, pending[c].value)
  /\ pending' = Resume(c)
  /\ UNCHANGED <<store, nextId, now, issued>>

\* Concurrent callers creating donations, requests and activities, and
\* updating the donations they find, in any interleaving.
NextAsync ==
  \/ /\ Tick
     /\ UNCHANGED pending
  \/ /\ Room(2, MaxListIds)
     /\ \E c \in Callers, t \in Times :
          \E donationData \in {d \in DonationInputs : d.type = "food"} :
            CreateDonationCall(c, donationData, t)
  \/ /\ Room(2, MaxListIds)
     /\ \E c \in Callers, t \in Times :
          \E requestData \in {r \in RequestInputs : r.type = "food"} :
            CreateRequestCall(c, requestData, t)
  \/ /\ Room(2, MaxListIds)
     /\ \E c \in Callers, t \in Times :
          \E activityData \in {a \in ActivityInputs : a.startTime = 0} :
            CreateActivityCall(c, activityData, t)
  \/ \E c \in Callers : CreateReturns(c)
  \/ /\ UpdateDonationCalls
     /\ UNCHANGED pending
SpecAsync == Init /\ [][NextAsync]_vars

\* --------------------------------------------- POST /api/auth/register
\* The handler of POST /api/auth/register, one action per run between its
\* awaits.  The request bodies drawn are ones insertUserSchema accepts.
\* bcrypt.hash(password, 10) and jwt.sign({ userId }, JWT_SECRET)
bcryptHash(password) == <<"bcrypt", password>>
jwtSign(userId) == <<"jwt", userId>>

\* res.status(status).json(body)
Response(c, userData, status, body) ==
  [op |-> "register", caller |-> c, arg |-> userData, error |-> Null,
   status |-> status, value |-> body]

\* const { password, ...userResponse } = user
WithoutPassword(user) == [f \in DOMAIN user \ {"password"} |-> user[f]]

\* From the request to `await storage.getUserByEmail(userData.email)`: the
\* lookup itself has run, its result is what the handler resumes with.
Register(c, userData) ==
  /\ Idle(c)
  /\ pending' = Suspend(c, "getUserByEmail", userData,
                        getUserByEmail(userData.email))
  /\ UNCHANGED <<store, nextId, now, ret, issued>>

\* Resumed with existingUser: 409 if there is one, else on to
\* `await bcrypt.hash(...)`.
RegisterChecked(c) ==
  /\ c \in DOMAIN pending
  /\ pending[c].at = "getUserByEmail"
  /\ IF pending[c].value # {}
     THEN /\ ret' = Response(c, pending[c].arg, 409,
                             [message |-> "User exists"])
          /\ pending' = Resume(c)
     ELSE /\ pending' = Suspend(c, "bcrypt.hash", pending[c].arg, Null)
          /\ UNCHANGED ret
  /\ UNCHANGED <<store, nextId, now, issued>>

\* Resumed with hashedPassword: on to `await storage.createUser(...)`, which
\* has stored the user when the handler is suspended.
RegisterHashed(c) ==
  LET userData == pending[c].arg
      insertUser == Merge(userData,
                          [password |-> bcryptHash(userData.password)])
      id == randomUUID(0)
      user == User(id, insertUser, now)
  IN /\ c \in DOMAIN pending
     /\ pending[c].at = "bcrypt.hash"
     /\ users' = MapSet(users, id, user)
     /\ nextId' = id + 1
     /\ issued' = MapSet(issued, id, Issue("user", user))
     /\ pending' = Suspend(c, "createUser", userData, user)
     /\ UNCHANGED <<organizations, donations, requests, activities,
                    volunteerRegistrations, matches, activityFeed, payments,
                    notifications, now, ret>>

\* Resumed with user: 201 with the user, less its password, and a token.
RegisterResponds(c) ==
  /\ c \in DOMAIN pending
  /\ pending[c].at = "createUser"
  /\ ret' = Response(c, pending[c].arg, 201,
                     [user |-> WithoutPassword(pending[c].value),
                      token |-> jwtSign(pending[c].value.id)])
  /\ pending' = Resume(c)
  /\ UNCHANGED <<store, nextId, now, issued>>

\* The registrations under way that have yet to create their user
Creating == {c \in DOMAIN pending : pending[c].at # "createUser"}

\* Concurrent registrations, in any interleaving.
NextRegister ==
  \/ /\ Tick
     /\ UNCHANGED pending
  \/ /\ Room(1 + Cardinality(Creating), MaxIds)
     /\ \E c \in Callers, userData \in UserInputs : Register(c, userData)
  \/ \E c \in Callers : RegisterChecked(c)
  \/ \E c \in Callers : RegisterHashed(c)
  \/ \E c \in Callers : RegisterResponds(c)
SpecRegister == Init /\ [][NextRegister]_vars

\* ------------------------------------------------------------------ claims
AllMaps ==
  <<users, organizations, donations, requests, activities,
    volunteerRegistrations, matches, activityFeed, payments, notifications>>
AllKeys == UNION {DOMAIN AllMaps[i] : i \in DOMAIN AllMaps}
RECURSIVE SumSizes(_, _)
SumSizes(maps, i) ==
  IF i = 0 THEN 0 ELSE Cardinality(DOMAIN maps[i]) + SumSizes(maps, i - 1)
TotalRecords == SumSizes(AllMaps, Len(AllMaps))

\* What an update call on map m (m2 after the call) must have done: fail with
\* `message` and change nothing when m lacks id; otherwise store and return
\* the record that has the update's value in every field the update names
\* and the old value in every other field, and change no other record of m.
UpdateContract(m, m2, id, update, message) ==
  IF id \notin DOMAIN m
  THEN /\ ret'.error = message
       /\ m2 = m
  ELSE /\ ret'.error = Null
       /\ DOMAIN m2 = DOMAIN m
       /\ m2[id] = ret'.value
       /\ DOMAIN ret'.value = DOMAIN m[id] \cup DOMAIN update
       /\ \A f \in DOMAIN update : ret'.value[f] = update[f]
       /\ \A f \in DOMAIN m[id] \ DOMAIN update : ret'.value[f] = m[id][f]
       /\ \A k \in DOMAIN m \ {id} : m2[k] = m[k]

\* C2: each of updateUser, updateDonation, updateRequest, updateActivity and
\* updatePayment fails with its not-found error and leaves every map as it
\* was when the identifier is not in its map; otherwise it stores and returns
\* the record in which every field the update names has the update's value
\* and every other field keeps its value, and no other record of any kind
\* changes.
C2_UpdateMergesOrFails ==
  [][/\ \A c \in Calls(users, UserUpdates) :
          UpdateUser(c[1], c[2]) =>
            /\ UpdateContract(users, users', c[1], c[2], "User not found")
            /\ UNCHANGED <<organizations, donations, requests, activities,
                           volunteerRegistrations, matches, activityFeed,
                           payments, notifications>>
     /\ \A c \in Calls(donations, DonationUpdates) :
          UpdateDonation(c[1], c[2]) =>
            /\ UpdateContract(donations, donations', c[1], c[2],
                              "Donation not found")
            /\ UNCHANGED <<users, organizations, requests, activities,
                           volunteerRegistrations, matches, activityFeed,
                           payments, notifications>>
     /\ \A c \in Calls(requests, RequestUpdates) :
          UpdateRequest(c[1], c[2]) =>
            /\ UpdateContract(requests, requests', c[1], c[2],
                              "Request not found")
            /\ UNCHANGED <<users, organizations, donations, activities,
                           volunteerRegistrations, matches, activityFeed,
                           payments, notifications>>
     /\ \A c \in Calls(activities, ActivityUpdates) :
          UpdateActivity(c[1], c[2]) =>
            /\ UpdateContract(activities, activities', c[1], c[2],
                              "Activity not found")
            /\ UNCHANGED <<users, organizations, donations, requests,
                           volunteerRegistrations, matches, activityFeed,
                           payments, notifications>>
     /\ \A c \in Calls(payments, PaymentUpdates) :
          UpdatePayment(c[1], c[2]) =>
            /\ UpdateContract(payments, payments', c[1], c[2],
                              "Payment not found")
            /\ UNCHANGED <<users, organizations, donations, requests,
                           activities, volunteerRegistrations, matches,
                           activityFeed, notifications>>
    ]_vars

\* C2 witness: updateDonation(knownId, {status: "claimed", recipientId: 2})
\* has returned the stored record, with the new status and the old title.
C2_Witness ==
  /\ ret.op = "updateDonation"
  /\ ret.error = Null
  /\ ret.arg = [status |-> "claimed", recipientId |-> 2]
  /\ donations[ret.id] = ret.value
  /\ ret.value.status = "claimed"
  /\ ret.value.title = "Rice"

\* C3 (as claimed): every stored record's identifier is the key it is stored
\* under and the identifier its create call returned, and its creation
\* timestamp is the one stamped at creation.
C3_IdAndCreatedAtImmutable ==
  \A i \in DOMAIN AllMaps :
    \A k \in DOMAIN AllMaps[i] :
      /\ AllMaps[i][k].id = k
      /\ AllMaps[i][k].id = issued[k].record.id
      /\ AllMaps[i][k].createdAt = issued[k].record.createdAt

\* C8: markNotificationAsRead(id) never fails; on an identifier that is not
\* stored it leaves the whole store as it was and creates no record; on a
\* stored one it replaces that notification by one with read = true and every
\* other field unchanged, leaves every other notification unchanged, and a
\* second call changes nothing more.
C8_MarkAsReadContract ==
  [][\A id \in DOMAIN notifications \cup {Missing(notifications)} :
       MarkNotificationAsRead(id) =>
         /\ ret'.error = Null
         /\ UNCHANGED <<users, organizations, donations, requests,
                        activities, volunteerRegistrations, matches,
                        activityFeed, payments>>
         /\ DOMAIN notifications' = DOMAIN notifications
         /\ \A k \in DOMAIN notifications \ {id} :
              notifications'[k] = notifications[k]
         /\ id \in DOMAIN notifications =>
              /\ notifications'[id].read = TRUE
              /\ DOMAIN notifications'[id] = DOMAIN notifications[id]
              /\ \A f \in DOMAIN notifications[id] \ {"read"} :
                   notifications'[id][f] = notifications[id][f]
         /\ Marked(notifications', id) = notifications'
    ]_vars

\* C8 witness: of two stored notifications, the one just marked is read and
\* the other is still unread.
C8_Witness ==
  /\ ret.op = "markNotificationAsRead"
  /\ ret.id \in DOMAIN notifications
  /\ notifications[ret.id].read = TRUE
  /\ \E k \in DOMAIN notifications \ {ret.id} : notifications[k].read = FALSE

UserIds == {id \in DOMAIN issued : issued[id].kind = "user"}

\* C9: getUser(id) right after createUser returned the record with that id
\* gives that record; every operation other than updateUser on that id
\* leaves what getUser(id) gives unchanged; and getUser of an identifier no
\* createUser call returned gives the absent result.
C9_CreateGetRoundTrip ==
  /\ [](\A id \in 1..nextId : id \notin UserIds => getUser(id) = {})
  /\ [][/\ \A insertUser \in UserInputs :
             CreateUser(insertUser) =>
               \A id \in 1..nextId :
                 id = ret'.value.id => getUser(id)' = {ret'.value}
        /\ \A id \in UserIds :
             (~ \E userUpdate \in UserUpdates : UpdateUser(id, userUpdate))
               => getUser(id)' = getUser(id)
       ]_vars

\* C9 witness: a user created before the last create call is still read back
\* as the record its createUser call returned.
C9_Witness ==
  \E id \in UserIds :
    /\ ret.op \in {"createPayment", "createNotification", "createUser"}
    /\ ret.value.id > id
    /\ getUser(id) = {issued[id].record}

CreateOps ==
  {"createUser", "createOrganization", "createDonation", "createRequest",
   "createActivity", "createVolunteerRegistration", "createMatch",
   "createActivityFeedItem", "createPayment", "createNotification"}

\* C10: no two stored records, of the same kind or of different kinds, have
\* the same identifier; the record a create call returns has an identifier
\* that no stored record had before the call, and the call adds its records
\* (two for a donation, a request or an activity: the record and its feed
\* item) without replacing any stored one.
C10_FreshIdentifiers ==
  /\ [](Cardinality(AllKeys) = TotalRecords)
  /\ [][(ret' # ret /\ ret'.op \in CreateOps) =>
          /\ ret'.value.id \notin AllKeys
          /\ ret'.value.id \in AllKeys'
          /\ TotalRecords' = TotalRecords +
               (IF ret'.op \in {"createDonation", "createRequest",
                                "createActivity"} THEN 2 ELSE 1)
          /\ \A i \in DOMAIN AllMaps :
               \A k \in DOMAIN AllMaps[i] :
                 k \in DOMAIN AllMaps'[i] /\ AllMaps'[i][k] = AllMaps[i][k]
       ]_vars

\* C10 witness: createDonation has stored a donation and a feed item that
\* refers to it, under two different identifiers.
C10_Witness ==
  /\ ret.op = "createDonation"
  /\ ret.value.id \in DOMAIN donations
  /\ \E f \in DOMAIN activityFeed :
       /\ "donationId" \in DOMAIN activityFeed[f].metadata
       /\ activityFeed[f].metadata.donationId = ret.value.id
       /\ f # ret.value.id

\* The number of places of sequence s that hold r
Count(s, r) == Cardinality({i \in DOMAIN s : s[i] = r})
\* Sequence s holds the records of map m stored under the keys in K, each as
\* often as K has keys storing it, and nothing else.
HoldsExactly(s, m, K) ==
  /\ Len(s) = Cardinality(K)
  /\ \A k \in K : Count(s, m[k]) = Cardinality({j \in K : m[j] = m[k]})
Descending(s, field) ==
  \A i \in 1..Len(s) - 1 : s[i][field] >= s[i + 1][field]
StrictlyDescending(s, field) ==
  \A i \in 1..Len(s) - 1 : s[i][field] > s[i + 1][field]
Ascending(s, field) ==
  \A i \in 1..Len(s) - 1 : s[i][field] <= s[i + 1][field]
StrictlyAscending(s, field) ==
  \A i \in 1..Len(s) - 1 : s[i][field] < s[i + 1][field]

NoFilters == EmptyMap
Place == [lat |-> 0, lng |-> 0, radius |-> 1]
\* A filter argument giving type t and urgency u, "" standing for a field
\* that is left out, with or without a location.
FiltersOf(t, u) ==
  LET given == [type |-> t, urgency |-> u, location |-> Place]
  IN {[f \in F |-> given[f]] :
        F \in {({"type"} \cap (IF t = "" THEN {} ELSE {"type"}))
                 \cup ({"urgency"} \cap (IF u = "" THEN {} ELSE {"urgency"}))
                 \cup L : L \in {{}, {"location"}}}}

\* C5 (amended): for every non-empty type t, getDonations({type: t}) returns
\* exactly the stored donations whose type is t; getRequests does the same
\* for a non-empty type and, when given, a non-empty urgency; an empty or
\* omitted type or urgency does not filter; the location filter changes
\* nothing; and the result is ordered by creation timestamp descending, not
\* strictly: each element's createdAt is greater than or equal to the next's.
C5_FilteredNewestFirst ==
  /\ \A t \in Types :
       \A filters \in FiltersOf(t, "") \cup {[type |-> t]} :
         LET got == getDonations(filters)
         IN /\ HoldsExactly(got, donations,
                            {k \in DOMAIN donations :
                               t = "" \/ donations[k].type = t})
            /\ Descending(got, "createdAt")
  /\ \A t \in Types, u \in Urgencies :
       \A filters \in FiltersOf(t, u) \cup {[type |-> t, urgency |-> u]} :
         LET got == getRequests(filters)
         IN /\ HoldsExactly(got, requests,
                            {k \in DOMAIN requests :
                               /\ t = "" \/ requests[k].type = t
                               /\ u = "" \/ requests[k].urgency = u})
            /\ Descending(got, "createdAt")

\* C5 witness: of two stored donations of different types, the type filter
\* returns one, and the unfiltered list has the one created later first.
C5_Witness ==
  \E k1, k2 \in DOMAIN donations :
    /\ k1 < k2
    /\ donations[k1].type = "money" /\ donations[k2].type = "food"
    /\ donations[k1].createdAt < donations[k2].createdAt
    /\ getDonations([type |-> "food"]) = <<donations[k2]>>
    /\ getDonations(NoFilters) = <<donations[k2], donations[k1]>>

\* C5 (as claimed, for the non-empty types): getDonations({type: t}) returns
\* exactly the stored donations of type t, and getRequests likewise, in
\* strictly descending order of createdAt.
C5_StrictlyNewestFirst ==
  /\ \A t \in Types \ {""} :
       /\ HoldsExactly(getDonations([type |-> t]), donations,
                       {k \in DOMAIN donations : donations[k].type = t})
       /\ StrictlyDescending(getDonations([type |-> t]), "createdAt")
  /\ \A t \in Types \ {""}, u \in Urgencies \ {""} :
       /\ HoldsExactly(getRequests([type |-> t, urgency |-> u]), requests,
                       {k \in DOMAIN requests :
                          requests[k].type = t /\ requests[k].urgency = u})
       /\ StrictlyDescending(getRequests([type |-> t, urgency |-> u]),
                             "createdAt")

\* C7 (amended): getActivities() returns all stored activities ordered by
\* startTime ascending, not strictly (each element's startTime is less than
\* or equal to the next's), whatever the order in which they were created or
\* updated and whatever location filter is passed.
C7_ActivitiesSoonestFirst ==
  \A filters \in {NoFilters, [location |-> Place]} :
    LET got == getActivities(filters)
    IN /\ HoldsExactly(got, activities, DOMAIN activities)
       /\ Ascending(got, "startTime")
       /\ got = getActivities(NoFilters)

\* C7 witness: an activity created after another but starting before it comes
\* first.
C7_Witness ==
  \E k1, k2 \in DOMAIN activities :
    /\ k1 < k2
    /\ activities[k1].startTime > activities[k2].startTime
    /\ getActivities(NoFilters) = <<activities[k2], activities[k1]>>

\* C7 (as claimed): getActivities() returns all stored activities ordered by
\* startTime strictly ascending.
C7_StrictlySoonestFirst ==
  /\ HoldsExactly(getActivities(NoFilters), activities, DOMAIN activities)
  /\ StrictlyAscending(getActivities(NoFilters), "startTime")

\* The feed items a step has added
NewItems == DOMAIN activityFeed' \ DOMAIN activityFeed

\* What a step of createDonation, createRequest or createActivity (`op`) must
\* do to the feed: add one item and change no other, the new item's metadata
\* holding under `key` the identifier of the record the call returned, and
\* getActivityFeed() on the store the call leaves returning the new item.
FeedContract(op, key) ==
  (ret' # ret /\ ret'.op = op) =>
    /\ Cardinality(DOMAIN activityFeed') = Cardinality(DOMAIN activityFeed) + 1
    /\ \A k \in DOMAIN activityFeed :
         k \in DOMAIN activityFeed' /\ activityFeed'[k] = activityFeed[k]
    /\ \A f \in NewItems :
         /\ key \in DOMAIN activityFeed'[f].metadata
         /\ activityFeed'[f].metadata[key] = ret'.value.id
         /\ activityFeed'[f] \in Range(Newest(activityFeed', DefaultLimit))

\* C1 (as claimed): each call of createDonation, createRequest or
\* createActivity adds exactly one feed item and changes no other, the new
\* item's metadata holds the identifier of the record just created, and
\* getActivityFeed() called right after the create call returns that item.
C1_CreateEmitsFeedItem ==
  [][/\ FeedContract("createDonation", "donationId")
     /\ FeedContract("createRequest", "requestId")
     /\ FeedContract("createActivity", "activityId")
    ]_vars

\* C4 (as claimed): a caller's assignment to a field of an object that a
\* create, get or list call returned leaves the store as it was: a later get
\* of any identifier returns what it returned before the assignment.
C4_CopiedOnRead ==
  [][\A ref \in Refs :
       CallerMutates(ref) =>
         /\ \A id \in DOMAIN users : getUser(id)' = getUser(id)
         /\ \A id \in DOMAIN donations : getDonation(id)' = getDonation(id)
    ]_vars

\* C6 (as claimed; identifiers are issued in the order of creation, so the
\* later created of two feed items is the one with the greater identifier):
\* for every limit k >= 0, getActivityFeed(k) returns min(k, n) of the n feed
\* items, no omitted item was created after a returned one, and each returned
\* item was created after the next; with no argument the limit is 50.
C6_NewestFeedItemsFirst ==
  LET n == Cardinality(DOMAIN activityFeed)
  IN \A k \in (0..n + 1) \cup {DefaultLimit} :
       LET got == getActivityFeed(k)
       IN /\ Len(got) = IF k < n THEN k ELSE n
          /\ \A i \in DOMAIN got : got[i].id \in DOMAIN activityFeed
          /\ \A i \in DOMAIN got :
               \A f \in DOMAIN activityFeed :
                 (\A j \in DOMAIN got : got[j].id # f) => f < got[i].id
          /\ \A i \in 1..Len(got) - 1 : got[i].id > got[i + 1].id

\* The donation, request and activity references a match has set (non-null)
References(match) ==
  {f \in {"donationId", "requestId", "activityId"} : match[f] # NullId}

\* C11 (as claimed): every stored match has at most one of donationId,
\* requestId and activityId set, whatever createMatch was called with.
C11_MatchNamesAtMostOne ==
  \A k \in DOMAIN matches : Cardinality(References(matches[k])) <= 1

\* The feed items whose metadata holds identifier id under `key`
Referencing(key, id) ==
  {f \in DOMAIN activityFeed :
     /\ key \in DOMAIN activityFeed[f].metadata
     /\ activityFeed[f].metadata[key] = id}

\* C12: whatever the interleaving of the callers, in every state the event
\* loop can hand to a caller, every stored donation, request and activity
\* has a feed item that references it (by the identifier it is stored
\* under), also while the create that stored it is still suspended.
C12_NoRecordWithoutFeedItem ==
  /\ \A k \in DOMAIN donations : Referencing("donationId", k) # {}
  /\ \A k \in DOMAIN requests : Referencing("requestId", k) # {}
  /\ \A k \in DOMAIN activities : Referencing("activityId", k) # {}

\* C12 witness: while one caller's createDonation is still suspended at its
\* await, another caller has updated the donation it stored, and a second
\* caller's create is suspended as well.
C12_Witness ==
  \E c1, c2 \in DOMAIN pending :
    /\ c1 # c2
    /\ pending[c1].at = "createDonation"
    /\ pending[c2].at \in {"createRequest", "createActivity"}
    /\ ret.op = "updateDonation"
    /\ ret.error = Null
    /\ ret.id = pending[c1].value.id
    /\ Referencing("donationId", pending[c1].value.id) # {}

\* No two stored users have the same email
EmailsUnique ==
  \A k1, k2 \in DOMAIN users :
    users[k1].email = users[k2].email => k1 = k2

\* Caller c's registration stores its user in this step
StoresUser(c) ==
  /\ c \in DOMAIN pending /\ pending[c].at = "bcrypt.hash"
  /\ c \in DOMAIN pending' /\ pending'[c].at = "createUser"

\* C13 (as claimed): whatever the interleaving of the registrations, the
\* store never holds two users with the same email, and a registration
\* stores a user only when no stored user has its email.
C13_RegisterKeepsEmailsUnique ==
  [][/\ EmailsUnique'
     /\ \A c \in Callers :
          StoresUser(c) => getUserByEmail(pending[c].arg.email) = {}
    ]_vars

====
